---- MODULE Spec2Model ----
(***************************************************************************)
(* Event model of sociopatterns/__init__.py: the classes Event, Sighting   *)
(* and Contact, their constructors, get_hash and __repr__.                 *)
(*                                                                         *)
(* Strings are sequences of one-character strings.  Machine words of the   *)
(* interpreter's hash (64 bits) are sequences of 8 bytes, least            *)
(* significant first, because TLC's integers are 32 bits wide.           *)
(***************************************************************************)
EXTENDS Integers, Sequences, FiniteSets, TLC

(***************************************************************************)
(* Inputs: what readers report (time, reader address) and what tags send.  *)
(***************************************************************************)
\* At most this many objects are constructed.
MaxRecords == 2
\* At most this many entries are appended to neighbor lists by their holders.
MaxAppends == 2

Receptions ==
    {[t |-> 1700000000, ip |-> 184418305],     \* reader 10.254.0.1
     [t |-> 1700000060, ip |-> 184418306]}     \* reader 10.254.0.2

\* One tag's packet; the same packet with every field outside the identity
\* (id, boot_count, seq) changed, strength beyond 3; the same (id, seq) after
\* a reboot; and two packets of other tags.
SightingPackets ==
    {[id |-> 4660, seq |-> 7, strength |-> 2, flags |-> 1,
      last_seen |-> 1, boot_count |-> 3],
     [id |-> 4660, seq |-> 7, strength |-> 4, flags |-> 0,
      last_seen |-> 0, boot_count |-> 3],
     [id |-> 4660, seq |-> 7, strength |-> 3, flags |-> 1,
      last_seen |-> 1, boot_count |-> 4],
     \* last_seen and boot_count left to their defaults
     [id |-> 0, seq |-> 0, strength |-> 0, flags |-> 0,
      last_seen |-> 0, boot_count |-> 0],
     [id |-> 26984, seq |-> 90112910, strength |-> 1, flags |-> 2,
      last_seen |-> 4660, boot_count |-> 480]}

\* given = FALSE: the call leaves seen_id, seen_pwr, seen_cnt to their defaults.
\* The tables given have 2, 4 and 5 entries, a repeated id, and lists of
\* unequal length.
ContactPackets ==
    {[id |-> 4660, seq |-> 7, flags |-> 0, boot_count |-> 3, given |-> FALSE,
      ids |-> <<>>, pwrs |-> <<>>, cnts |-> <<>>],
     [id |-> 4660, seq |-> 7, flags |-> 1, boot_count |-> 4, given |-> TRUE,
      ids |-> <<4661, 4662>>, pwrs |-> <<0, 3>>, cnts |-> <<1, 7>>],
     [id |-> 4661, seq |-> 8, flags |-> 0, boot_count |-> 0, given |-> TRUE,
      ids |-> <<4660, 4662, 4663, 4664>>, pwrs |-> <<1, 2, 3, 0>>,
      cnts |-> <<1, 2, 3, 7>>],
     [id |-> 4661, seq |-> 9, flags |-> 0, boot_count |-> 0, given |-> TRUE,
      ids |-> <<4660, 4662, 4663, 4664, 4665>>, pwrs |-> <<1, 2, 3, 0, 1>>,
      cnts |-> <<1, 2, 3, 7, 1>>],
     [id |-> 4662, seq |-> 7, flags |-> 0, boot_count |-> 1, given |-> TRUE,
      ids |-> <<4660, 4660>>, pwrs |-> <<1, 2>>, cnts |-> <<3, 4>>],
     [id |-> 4662, seq |-> 8, flags |-> 0, boot_count |-> 1, given |-> TRUE,
      ids |-> <<4660, 4661>>, pwrs |-> <<2>>, cnts |-> <<5>>]}

\* What a holder of a Contact appends to its neighbor lists.
AppendedEntries == {[id |-> 4669, pwr |-> 1, cnt |-> 2]}

(***************************************************************************)
(* 64-bit unsigned arithmetic on byte sequences (Py_uhash_t).              *)
(***************************************************************************)
\* The word of a non-negative integer below 2^31.
ToWord(n) ==
    <<n % 256, (n \div 256) % 256, (n \div 65536) % 256,
      (n \div 16777216) % 256, 0, 0, 0, 0>>

\* (x + y) mod 2^64: byte by byte, s_i is byte i's sum with the carry in.
Add64(x, y) ==
    LET s1 == x[1] + y[1]
        s2 == x[2] + y[2] + s1 \div 256
        s3 == x[3] + y[3] + s2 \div 256
        s4 == x[4] + y[4] + s3 \div 256
        s5 == x[5] + y[5] + s4 \div 256
        s6 == x[6] + y[6] + s5 \div 256
        s7 == x[7] + y[7] + s6 \div 256
        s8 == x[8] + y[8] + s7 \div 256
    IN  <<s1 % 256, s2 % 256, s3 % 256, s4 % 256,
          s5 % 256, s6 % 256, s7 % 256, s8 % 256>>

RECURSIVE Column(_, _, _, _)
\* Column i of the schoolbook product: the sum of x[j] * y[i + 1 - j], j in 1..i.
Column(x, y, i, j) ==
    IF j = 0 THEN 0 ELSE x[j] * y[i + 1 - j] + Column(x, y, i, j - 1)

\* (x * y) mod 2^64: s_i is column i's sum with the carry in.
Mul64(x, y) ==
    LET s1 == Column(x, y, 1, 1)
        s2 == Column(x, y, 2, 2) + s1 \div 256
        s3 == Column(x, y, 3, 3) + s2 \div 256
        s4 == Column(x, y, 4, 4) + s3 \div 256
        s5 == Column(x, y, 5, 5) + s4 \div 256
        s6 == Column(x, y, 6, 6) + s5 \div 256
        s7 == Column(x, y, 7, 7) + s6 \div 256
        s8 == Column(x, y, 8, 8) + s7 \div 256
    IN  <<s1 % 256, s2 % 256, s3 % 256, s4 % 256,
          s5 % 256, s6 % 256, s7 % 256, s8 % 256>>

\* x rotated left by 31 bits: left by 32 (four bytes), then right by one.
Rotl32(x) == <<x[5], x[6], x[7], x[8], x[1], x[2], x[3], x[4]>>
Rotr1(x) ==
    <<x[1] \div 2 + 128 * (x[2] % 2), x[2] \div 2 + 128 * (x[3] % 2),
      x[3] \div 2 + 128 * (x[4] % 2), x[4] \div 2 + 128 * (x[5] % 2),
      x[5] \div 2 + 128 * (x[6] % 2), x[6] \div 2 + 128 * (x[7] % 2),
      x[7] \div 2 + 128 * (x[8] % 2), x[8] \div 2 + 128 * (x[1] % 2)>>
Rotl31(x) == Rotr1(Rotl32(x))

(***************************************************************************)
(* hash() of a tuple of small non-negative integers, as CPython (3.8 and    *)
(* later, 64-bit) computes it: the hash of such an integer is the integer, *)
(* and the tuple's hash runs each item's hash through one lane of an       *)
(* xxHash-style accumulator.                                               *)
(***************************************************************************)
XXPRIME_1 == <<135, 202, 235, 133, 177, 121, 55, 158>>
XXPRIME_2 == <<79, 235, 212, 39, 61, 174, 178, 194>>
XXPRIME_5 == <<197, 103, 86, 22, 47, 235, 212, 39>>
\* XXPRIME_5 ^ 3527539
XXTrailer == <<182, 180, 99, 22, 47, 235, 212, 39>>
AllOnes   == <<255, 255, 255, 255, 255, 255, 255, 255>>
\* 1546275796, returned instead of -1
MinusOneSubstitute == <<212, 75, 42, 92, 0, 0, 0, 0>>

RECURSIVE Xor(_, _)
\* Bitwise exclusive or of two naturals.
Xor(a, b) ==
    IF a = 0 THEN b
    ELSE IF b = 0 THEN a
    ELSE ((a + b) % 2) + 2 * Xor(a \div 2, b \div 2)

\* hash(n) for an int n in 0 .. 2^31 - 1
IntHash(n) == ToWord(n)

RECURSIVE Lanes(_, _)
\* The accumulator after the items of tup have gone through their lanes.
Lanes(tup, k) ==
    IF k = 0 THEN XXPRIME_5
    ELSE Mul64(Rotl31(Add64(Lanes(tup, k - 1),
                            Mul64(IntHash(tup[k]), XXPRIME_2))),
               XXPRIME_1)

\* hash(tup) for a tuple of at most 255 ints
tuplehash(tup) ==
    LET n   == Len(tup)
        acc == Add64(Lanes(tup, n),
                     [XXTrailer EXCEPT ![1] = Xor(n, XXTrailer[1])])
    IN  IF acc = AllOnes THEN MinusOneSubstitute ELSE acc

\* The tuples the inputs make get_hash hash, each with its hash, computed once.
HashedTuples ==
    {<<p.id, p.boot_count, p.seq>> : p \in SightingPackets}
        \cup {<<p.id, p.seq>> : p \in ContactPackets}
HashTable == {<<tup, tuplehash(tup)>> : tup \in HashedTuples}

\* hash(tup): looked up when tabulated, computed otherwise.
hash(tup) ==
    IF tup \in HashedTuples
    THEN (CHOOSE e \in HashTable : e[1] = tup)[2]
    ELSE tuplehash(tup)

(***************************************************************************)
(* '%' formatting of integers.  Fields are unsigned, so only n >= 0.       *)
(***************************************************************************)
HexDigits == <<"0", "1", "2", "3", "4", "5", "6", "7",
               "8", "9", "a", "b", "c", "d", "e", "f">>

RECURSIVE ToBase(_, _)
\* The digits of n >= 0 in the given base, most significant first.
ToBase(n, base) ==
    IF n < base THEN <<HexDigits[n + 1]>>
    ELSE Append(ToBase(n \div base, base), HexDigits[(n % base) + 1])

RECURSIVE Zeros(_)
Zeros(k) == IF k <= 0 THEN <<>> ELSE <<"0">> \o Zeros(k - 1)

\* '%d' % n, '%ld' % n and '%s' % n
FormatD(n) == ToBase(n, 10)

\* FormatX without the width: '%x' % n.
FormatX_unpadded(n, width) == ToBase(n, 16)

\* '%0<width>x' % n: at least width digits, zero-padded on the left.
FormatX(n, width) ==
    LET d == ToBase(n, 16) IN Zeros(width - Len(d)) \o d

(***************************************************************************)
(* The classes.  An object is a record of its slots; a slot holding a      *)
(* list holds a reference into the heap of list objects.                   *)
(***************************************************************************)

\* Event.__init__
Event_init(tstamp, ip, id, seq) ==
    [t |-> tstamp, ip |-> ip, id |-> id, seq |-> seq]

\* Event_key with the boot counter added, as Sighting's has it.
Event_key_with_boot(self) == <<self.id, self.boot_count, self.seq>>

\* The tuple Event.get_hash hashes.
Event_key(self) == <<self.id, self.seq>>

\* Event.get_hash
Event_get_hash(self) == hash(Event_key(self))

\* Sighting.__init__
Sighting_init(tstamp, ip, id, seq, strength, flags, last_seen, boot_count) ==
    Event_init(tstamp, ip, id, seq) @@
    [cls |-> "Sighting", strength |-> strength, flags |-> flags,
     last_seen |-> last_seen, boot_count |-> boot_count]

\* Sighting_key with the reader's address added.
Sighting_key_with_ip(self) == <<self.id, self.boot_count, self.seq, self.ip>>

\* Sighting_key as Event.get_hash has it, without the boot counter.
Sighting_key_without_boot(self) == <<self.id, self.seq>>

\* The tuple Sighting.get_hash hashes.
Sighting_key(self) == <<self.id, self.boot_count, self.seq>>

\* Sighting.get_hash
Sighting_get_hash(self) == hash(Sighting_key(self))

\* Sighting.__repr__
Sighting_repr(self) ==
    <<"S", " ">> \o FormatD(self.t)
      \o <<" ", "0", "x">> \o FormatX(self.ip, 8)
      \o <<" ">> \o FormatD(self.id)
      \o <<" ", "0", "x">> \o FormatX(self.seq, 8)
      \o <<" ">> \o FormatD(self.strength)
      \o <<" ">> \o FormatD(self.flags)
      \o <<" ">> \o FormatD(self.last_seen)
      \o <<" ">> \o FormatD(self.boot_count)

\* Contact.__init__: seen_id, seen_pwr and seen_cnt are references.
Contact_init(tstamp, ip, id, seq, seen_id, seen_pwr, seen_cnt, flags, boot_count) ==
    Event_init(tstamp, ip, id, seq) @@
    [cls |-> "Contact", seen_id |-> seen_id, seen_pwr |-> seen_pwr,
     seen_cnt |-> seen_cnt, flags |-> flags, boot_count |-> boot_count]

Min(a, b) == IF a <= b THEN a ELSE b

\* The number of triples zip(a, b, c) yields.
ZipLen(a, b, c) == Min(Len(a), Min(Len(b), Len(c)))

RECURSIVE Clist(_, _, _, _)
\* The loop of Contact.__repr__ over the first n triples of the zip.
Clist(ids, pwrs, cnts, n) ==
    IF n = 0 THEN <<>>
    ELSE Clist(ids, pwrs, cnts, n - 1)
           \o <<" ", "[">> \o FormatD(ids[n])
           \o <<"(">> \o FormatD(pwrs[n])
           \o <<")", " ", "#">> \o FormatD(cnts[n]) \o <<"]">>

\* Contact.__repr__, with the heap the references point into.
Contact_repr(self, heap) ==
    LET ids  == heap[self.seen_id]
        pwrs == heap[self.seen_pwr]
        cnts == heap[self.seen_cnt]
    IN  <<"C", " ">> \o FormatD(self.t)
          \o <<" ", "0", "x">> \o FormatX(self.ip, 8)
          \o <<" ">> \o FormatD(self.id)
          \o <<" ", "0", "x">> \o FormatX(self.boot_count, 4)
          \o <<" ", "0", "x">> \o FormatX(self.seq, 8)
          \o <<" ">> \o FormatD(self.flags)
          \o Clist(ids, pwrs, cnts, ZipLen(ids, pwrs, cnts))

\* get_hash as the object's class resolves it: Contact inherits Event's.
get_hash(self) ==
    IF self.cls = "Sighting" THEN Sighting_get_hash(self)
    ELSE Event_get_hash(self)

\* __repr__ as the object's class resolves it.
repr(self, heap) ==
    IF self.cls = "Sighting" THEN Sighting_repr(self)
    ELSE Contact_repr(self, heap)

(***************************************************************************)
(* State.                                                                  *)
(***************************************************************************)
VARIABLES
    records,   \* the objects constructed so far, in order of construction
    lists,     \* the heap of list objects; a reference is an index
    out,       \* the last call of get_hash or __repr__ and what it returned
    born,      \* per object, its slots and lists' contents when constructed
    own,       \* per object, the neighbor lists it was given plus what was
               \* appended through it
    appends    \* the number of entries appended so far

vars == <<records, lists, out, born, own, appends>>

\* The list objects the def statement of Contact.__init__ creates, once, as
\* the default values of seen_id, seen_pwr and seen_cnt.
DefaultSeenId  == 1
DefaultSeenPwr == 2
DefaultSeenCnt == 3

\* The neighbor lists of an object, dereferenced; none for a Sighting.
Table(self, heap) ==
    IF self.cls = "Contact"
    THEN <<heap[self.seen_id], heap[self.seen_pwr], heap[self.seen_cnt]>>
    ELSE <<>>

\* An object with the contents of the lists it refers to.
Snapshot(self, heap) == [slots |-> self, table |-> Table(self, heap)]

Init ==
    /\ records = <<>>
    /\ lists = <<<<>>, <<>>, <<>>>>
    /\ out = [op |-> "none", rec |-> 0, val |-> <<>>]
    /\ born = <<>>
    /\ own = <<>>
    /\ appends = 0

\* Sighting(rx.t, rx.ip, p.id, p.seq, p.strength, p.flags, p.last_seen, p.boot_count)
NewSighting(rx, p) ==
    /\ Len(records) < MaxRecords
    /\ LET self == Sighting_init(rx.t, rx.ip, p.id, p.seq, p.strength,
                                 p.flags, p.last_seen, p.boot_count)
       IN  /\ records' = Append(records, self)
           /\ born' = Append(born, Snapshot(self, lists))
           /\ own' = Append(own, <<>>)
    /\ UNCHANGED <<lists, out, appends>>

\* Contact(rx.t, rx.ip, p.id, p.seq, [seen_id, seen_pwr, seen_cnt,] flags, boot_count):
\* the caller's lists are three new list objects, or the defaults.
NewContact(rx, p) ==
    /\ Len(records) < MaxRecords
    /\ LET n == Len(lists)
           heap == IF p.given THEN lists \o <<p.ids, p.pwrs, p.cnts>> ELSE lists
           self == IF p.given
                   THEN Contact_init(rx.t, rx.ip, p.id, p.seq,
                                     n + 1, n + 2, n + 3, p.flags, p.boot_count)
                   ELSE Contact_init(rx.t, rx.ip, p.id, p.seq,
                                     DefaultSeenId, DefaultSeenPwr, DefaultSeenCnt,
                                     p.flags, p.boot_count)
       IN  /\ lists' = heap
           /\ records' = Append(records, self)
           /\ born' = Append(born, Snapshot(self, heap))
           /\ own' = Append(own, <<p.ids, p.pwrs, p.cnts>>)
    /\ UNCHANGED <<out, appends>>

\* records[i].get_hash()
GetHash(i) ==
    /\ i \in DOMAIN records
    /\ out' = [op |-> "get_hash", rec |-> i, val |-> get_hash(records[i])]
    /\ UNCHANGED <<records, lists, born, own, appends>>

\* Repr with a loop that consumes the lists it walks (pop instead of zip).
Repr_consuming(i) ==
    /\ i \in DOMAIN records
    /\ out' = [op |-> "repr", rec |-> i, val |-> repr(records[i], lists)]
    /\ lists' = IF records[i].cls = "Contact"
                THEN [k \in DOMAIN lists |->
                        IF k \in {records[i].seen_id, records[i].seen_pwr,
                                  records[i].seen_cnt}
                        THEN <<>> ELSE lists[k]]
                ELSE lists
    /\ UNCHANGED <<records, born, own, appends>>

\* repr(records[i])
Repr(i) ==
    /\ i \in DOMAIN records
    /\ out' = [op |-> "repr", rec |-> i, val |-> repr(records[i], lists)]
    /\ UNCHANGED <<records, lists, born, own, appends>>

\* The holder of Contact i appends an entry to its neighbor lists:
\* c.seen_id.append(e.id); c.seen_pwr.append(e.pwr); c.seen_cnt.append(e.cnt)
AppendNeighbor(i, e) ==
    /\ i \in DOMAIN records
    /\ records[i].cls = "Contact"
    /\ appends < MaxAppends
    /\ LET self == records[i]
           l1 == [lists EXCEPT ![self.seen_id] = Append(@, e.id)]
           l2 == [l1 EXCEPT ![self.seen_pwr] = Append(@, e.pwr)]
       IN  lists' = [l2 EXCEPT ![self.seen_cnt] = Append(@, e.cnt)]
    /\ own' = [own EXCEPT ![i] = <<Append(@[1], e.id), Append(@[2], e.pwr),
                                   Append(@[3], e.cnt)>>]
    /\ appends' = appends + 1
    /\ UNCHANGED <<records, out, born>>

Construct ==
    \E rx \in Receptions :
        \/ \E p \in SightingPackets : NewSighting(rx, p)
        \/ \E p \in ContactPackets : NewContact(rx, p)

Call ==
    \E i \in 1..MaxRecords : GetHash(i) \/ Repr(i)

Mutate ==
    \E i \in 1..MaxRecords : \E e \in AppendedEntries : AppendNeighbor(i, e)

\* The event model alone: constructors, get_hash and __repr__.
Next == Construct \/ Call

Spec == Init /\ [][Next]_vars

\* The event model and the holders of Contact objects changing their lists.
NextClient == Construct \/ Call \/ Mutate

SpecClient == Init /\ [][NextClient]_vars

(***************************************************************************)
(* Reading a debug string back: its tokens and the numbers they spell.     *)
(***************************************************************************)
DecDigits == {"0", "1", "2", "3", "4", "5", "6", "7", "8", "9"}
LowerHexDigits == DecDigits \cup {"a", "b", "c", "d", "e", "f"}

SpacesOf(s) == {i \in 1..Len(s) : s[i] = " "}

\* The position of the k-th space of s; 0 for k = 0, Len(s) + 1 past the last.
SpaceAt(s, k) ==
    IF k = 0 THEN 0
    ELSE IF k > Cardinality(SpacesOf(s)) THEN Len(s) + 1
    ELSE CHOOSE i \in SpacesOf(s) :
             Cardinality({j \in SpacesOf(s) : j < i}) = k - 1

\* s cut at its spaces.
Tokens(s) ==
    [k \in 1..(Cardinality(SpacesOf(s)) + 1) |->
        SubSeq(s, SpaceAt(s, k - 1) + 1, SpaceAt(s, k) - 1)]

DigitVal(c) == CHOOSE d \in 0..15 : HexDigits[d + 1] = c

RECURSIVE NumVal(_, _)
\* The number a sequence of digits spells in the given base.
NumVal(ds, base) ==
    IF ds = <<>> THEN 0
    ELSE NumVal(SubSeq(ds, 1, Len(ds) - 1), base) * base + DigitVal(ds[Len(ds)])

\* tok is the decimal numeral of n, without sign or leading zeros.
IsDec(tok, n) ==
    /\ Len(tok) >= 1
    /\ \A i \in 1..Len(tok) : tok[i] \in DecDigits
    /\ Len(tok) > 1 => tok[1] # "0"
    /\ NumVal(tok, 10) = n

\* tok is '0x' and exactly width lowercase hex digits spelling n.
IsHex(tok, width, n) ==
    /\ Len(tok) = width + 2
    /\ tok[1] = "0" /\ tok[2] = "x"
    /\ \A i \in 3..Len(tok) : tok[i] \in LowerHexDigits
    /\ NumVal(SubSeq(tok, 3, Len(tok)), 16) = n

\* t1 t2 are the two tokens of a group '[<id>(<pwr>) #<cnt>]'.
IsGroup(t1, t2, id, pwr, cnt) ==
    /\ Len(t1) >= 5 /\ t1[1] = "[" /\ t1[Len(t1)] = ")"
    /\ \E p \in 3..(Len(t1) - 2) :
          /\ t1[p] = "("
          /\ IsDec(SubSeq(t1, 2, p - 1), id)
          /\ IsDec(SubSeq(t1, p + 1, Len(t1) - 1), pwr)
    /\ Len(t2) >= 3 /\ t2[1] = "#" /\ t2[Len(t2)] = "]"
    /\ IsDec(SubSeq(t2, 2, Len(t2) - 1), cnt)

IsSighting(i) == i \in DOMAIN records /\ records[i].cls = "Sighting"
IsContact(i)  == i \in DOMAIN records /\ records[i].cls = "Contact"

\* The Sighting of the documented example and its debug string.
ExampleSighting ==
    Sighting_init(1700000000, 184418305, 4660, 7, 2, 1, 1, 3)
ExampleString ==
    <<"S", " ", "1", "7", "0", "0", "0", "0", "0", "0", "0", "0", " ",
      "0", "x", "0", "a", "f", "e", "0", "0", "0", "1", " ", "4", "6",
      "6", "0", " ", "0", "x", "0", "0", "0", "0", "0", "0", "0", "7",
      " ", "2", " ", "1", " ", "1", " ", "3">>

(***************************************************************************)
(* Documented ranges.                                                      *)
(***************************************************************************)
\* "at most 4 of them"
MaxNeighbors == 4
\* "Integer from 0 (lowest power) to 3 (highest power)"
MaxStrength == 3

(***************************************************************************)
(* Properties.                                                             *)
(***************************************************************************)
SameSightingIdentity(a, b) ==
    a.id = b.id /\ a.boot_count = b.boot_count /\ a.seq = b.seq

\* C1: the key get_hash returns for a Sighting is the key of every other
\* Sighting with the same (id, boot_count, seq), whatever their t, ip,
\* strength, flags and last_seen.
C1_SightingKeyIgnoresReception ==
    (out.op = "get_hash" /\ IsSighting(out.rec)) =>
        \A j \in DOMAIN records :
            (IsSighting(j) /\ SameSightingIdentity(records[j], records[out.rec]))
                => Sighting_get_hash(records[j]) = out.val

\* get_hash has returned for a Sighting, and another Sighting has the same
\* identity but another t, ip, strength, flags and last_seen.
C1_Witness ==
    /\ out.op = "get_hash" /\ IsSighting(out.rec)
    /\ \E j \in DOMAIN records :
          /\ IsSighting(j)
          /\ SameSightingIdentity(records[j], records[out.rec])
          /\ records[j].t # records[out.rec].t
          /\ records[j].ip # records[out.rec].ip
          /\ records[j].strength # records[out.rec].strength
          /\ records[j].flags # records[out.rec].flags
          /\ records[j].last_seen # records[out.rec].last_seen

\* C2: the key get_hash returns for a Contact is the key of every other
\* Contact with the same (id, seq), whatever their boot_count, t, ip, flags
\* and neighbor lists.
C2_ContactKeyIgnoresBootCount ==
    (out.op = "get_hash" /\ IsContact(out.rec)) =>
        \A j \in DOMAIN records :
            (/\ IsContact(j)
             /\ records[j].id = records[out.rec].id
             /\ records[j].seq = records[out.rec].seq)
                => get_hash(records[j]) = out.val

\* get_hash has returned for a Contact, and another Contact has the same
\* (id, seq) but another boot_count, t, ip, flags and neighbor lists.
C2_Witness ==
    /\ out.op = "get_hash" /\ IsContact(out.rec)
    /\ \E j \in DOMAIN records :
          /\ IsContact(j)
          /\ records[j].id = records[out.rec].id
          /\ records[j].seq = records[out.rec].seq
          /\ records[j].boot_count # records[out.rec].boot_count
          /\ records[j].t # records[out.rec].t
          /\ records[j].ip # records[out.rec].ip
          /\ records[j].flags # records[out.rec].flags
          /\ Table(records[j], lists) # Table(records[out.rec], lists)

\* C3 as stated: the key get_hash returns for a Sighting is the key of no
\* Sighting that differs from it in id, boot_count or seq.
C3_DistinctIdentitiesDistinctKeys ==
    (out.op = "get_hash" /\ IsSighting(out.rec)) =>
        \A j \in DOMAIN records :
            (IsSighting(j) /\ ~SameSightingIdentity(records[j], records[out.rec]))
                => Sighting_get_hash(records[j]) # out.val

\* C3 amended: two Sightings that differ in id, boot_count or seq are hashed
\* from different tuples; so are two with the same (id, seq) and different
\* boot_count.
C3_DistinctIdentitiesDistinctTuples ==
    \A i, j \in DOMAIN records :
        (/\ IsSighting(i) /\ IsSighting(j)
         /\ ~SameSightingIdentity(records[i], records[j]))
            => Sighting_key(records[i]) # Sighting_key(records[j])

\* get_hash has returned for a Sighting, and another Sighting has the same
\* (id, seq) but another boot_count.
C3_Witness ==
    /\ out.op = "get_hash" /\ IsSighting(out.rec)
    /\ \E j \in DOMAIN records :
          /\ IsSighting(j)
          /\ records[j].id = records[out.rec].id
          /\ records[j].seq = records[out.rec].seq
          /\ records[j].boot_count # records[out.rec].boot_count

\* C4: the debug string of a Sighting reads back as 'S', t in decimal, ip
\* as 0x and 8 hex digits, id in decimal, seq as 0x and 8 hex digits, then
\* strength, flags, last_seen and boot_count in decimal, single spaces
\* between them; the documented example gives the documented string.
C4_SightingDebugString ==
    (out.op = "repr" /\ IsSighting(out.rec)) =>
        LET self == records[out.rec]
            tok  == Tokens(out.val)
        IN  /\ Len(tok) = 9
            /\ tok[1] = <<"S">>
            /\ IsDec(tok[2], self.t)
            /\ IsHex(tok[3], 8, self.ip)
            /\ IsDec(tok[4], self.id)
            /\ IsHex(tok[5], 8, self.seq)
            /\ IsDec(tok[6], self.strength)
            /\ IsDec(tok[7], self.flags)
            /\ IsDec(tok[8], self.last_seen)
            /\ IsDec(tok[9], self.boot_count)
            /\ self = ExampleSighting => out.val = ExampleString

\* __repr__ has returned for the Sighting of the example.
C4_Witness ==
    /\ out.op = "repr" /\ IsSighting(out.rec)
    /\ records[out.rec] = ExampleSighting

\* C5 as stated: the debug string of a Contact reads back as 'C', t, ip as
\* 0x and 8 hex digits, id, boot_count as 0x and 4 hex digits, seq as 0x
\* and 8 hex digits, flags, and one group per entry of seen_id, in order.
C5_ContactDebugString ==
    (out.op = "repr" /\ IsContact(out.rec)) =>
        LET self == records[out.rec]
            ids  == lists[self.seen_id]
            pwrs == lists[self.seen_pwr]
            cnts == lists[self.seen_cnt]
            tok  == Tokens(out.val)
        IN  /\ Len(tok) = 7 + 2 * Len(ids)
            /\ tok[1] = <<"C">>
            /\ IsDec(tok[2], self.t)
            /\ IsHex(tok[3], 8, self.ip)
            /\ IsDec(tok[4], self.id)
            /\ IsHex(tok[5], 4, self.boot_count)
            /\ IsHex(tok[6], 8, self.seq)
            /\ IsDec(tok[7], self.flags)
            /\ \A k \in 1..Len(ids) :
                  IsGroup(tok[6 + 2 * k], tok[7 + 2 * k], ids[k], pwrs[k], cnts[k])

\* C6 as stated: every Contact that exists has at most 4 neighbor entries.
C6_AtMostFourNeighbors ==
    \A i \in DOMAIN records :
        IsContact(i) => Len(lists[records[i].seen_id]) <= MaxNeighbors

\* C7 as stated: every Sighting that exists has its strength in 0..3.
C7_StrengthInRange ==
    \A i \in DOMAIN records :
        IsSighting(i) => records[i].strength \in 0..MaxStrength

\* C8 as stated: in every Contact the neighbor ids are pairwise distinct
\* and seen_id, seen_pwr and seen_cnt have the same length.
C8_UniqueNeighborsEqualLengths ==
    \A i \in DOMAIN records :
        IsContact(i) =>
            LET ids == lists[records[i].seen_id]
            IN  /\ \A a, b \in 1..Len(ids) : a # b => ids[a] # ids[b]
                /\ Len(lists[records[i].seen_pwr]) = Len(ids)
                /\ Len(lists[records[i].seen_cnt]) = Len(ids)

\* The lists of a snapshot, as a heap for the references of its slots.
HeapOf(snap) ==
    IF snap.slots.cls = "Contact"
    THEN (snap.slots.seen_id :> snap.table[1])
           @@ (snap.slots.seen_pwr :> snap.table[2])
           @@ (snap.slots.seen_cnt :> snap.table[3])
    ELSE <<>>

\* C9: whatever constructors, get_hash and __repr__ have run, every object
\* has the slots and list contents it was constructed with, and a call
\* returns what it returns on the object as constructed.
C9_CallsLeaveRecordsAlone ==
    /\ \A i \in DOMAIN records : Snapshot(records[i], lists) = born[i]
    /\ out.op = "get_hash" => out.val = get_hash(born[out.rec].slots)
    /\ out.op = "repr" =>
          out.val = repr(born[out.rec].slots, HeapOf(born[out.rec]))

\* __repr__ has returned for a Contact with neighbor entries, constructed
\* before another object.
C9_Witness ==
    /\ out.op = "repr" /\ IsContact(out.rec)
    /\ out.rec < Len(records)
    /\ Len(lists[records[out.rec].seen_id]) > 0

\* C10 as stated: the neighbor lists of every Contact hold what its
\* constructor call gave (nothing, when the call gave none) and what was
\* appended through that Contact, whatever was done to the others.
C10_NoSharedLists ==
    \A i \in DOMAIN records :
        IsContact(i) => Table(records[i], lists) = own[i]

====
